---------------------------- MODULE Spec2Model ----------------------------
(***************************************************************************)
(* A model of Serial_SR720.py, the SR715/SR720 calibration utility: the    *)
(* query/write engine, the value comparator, the construction of restore   *)
(* write commands, and the dump / restore / compare drivers run by main.   *)
(*                                                                         *)
(* Text is modelled as a sequence of one-character strings, so that the    *)
(* string operations of the source (strip, split, startswith, join, the    *)
(* float() grammar, ASCII encode/decode) are computed and not assumed.     *)
(***************************************************************************)
EXTENDS Integers, Sequences, FiniteSets, TLC

(***************************************************************************)
(* Text helpers (Python str methods used by the source).                   *)
(***************************************************************************)

\* str.strip() / float() whitespace, restricted to the characters the model uses.
Whitespace == {" ", "\t", "\r", "\n"}

\* The one non-ASCII character of the model (a byte >= 0x80 on the wire).
NonAscii == {"<e9>"}

RECURSIVE LStrip(_)
LStrip(s) ==
    IF s = <<>> THEN <<>>
    ELSE IF Head(s) \in Whitespace THEN LStrip(Tail(s)) ELSE s

RECURSIVE RStrip(_)
RStrip(s) ==
    IF s = <<>> THEN <<>>
    ELSE IF s[Len(s)] \in Whitespace THEN RStrip(SubSeq(s, 1, Len(s) - 1)) ELSE s

\* s.strip()
Strip(s) == RStrip(LStrip(s))

\* s.startswith(p)
StartsWith(s, p) == Len(s) >= Len(p) /\ SubSeq(s, 1, Len(p)) = p

\* c in s
Contains(s, c) == \E i \in 1..Len(s) : s[i] = c

\* s.split(sep) for a one-character separator: always at least one piece.
RECURSIVE SplitAcc(_, _, _)
SplitAcc(s, sep, cur) ==
    IF s = <<>> THEN <<cur>>
    ELSE IF Head(s) = sep THEN <<cur>> \o SplitAcc(Tail(s), sep, <<>>)
    ELSE SplitAcc(Tail(s), sep, Append(cur, Head(s)))

Split(s, sep) == SplitAcc(s, sep, <<>>)

\* sep.join(parts) for a one-character separator.
RECURSIVE Join(_, _)
Join(parts, sep) ==
    IF parts = <<>> THEN <<>>
    ELSE IF Len(parts) = 1 THEN parts[1]
    ELSE parts[1] \o <<sep>> \o Join(Tail(parts), sep)

\* The first whitespace-delimited token's end: index of the first whitespace
\* character of s, or Len(s) + 1 when there is none (s has no leading whitespace).
RECURSIVE FirstWs(_, _)
FirstWs(s, i) ==
    IF i > Len(s) THEN i
    ELSE IF s[i] \in Whitespace THEN i ELSE FirstWs(s, i + 1)

\* s.split(None, 1): at most two pieces, split at the first whitespace run.
SplitNone1(s) ==
    LET t == LStrip(s)
        i == FirstWs(t, 1)
        rest == LStrip(SubSeq(t, i, Len(t)))
    IN  IF t = <<>> THEN <<>>
        ELSE IF rest = <<>> THEN <<SubSeq(t, 1, i - 1)>>
        ELSE <<SubSeq(t, 1, i - 1), rest>>

\* s.encode("ascii", errors="ignore") and bytes.decode("ascii", errors="ignore"):
\* characters outside ASCII are dropped.
IsAscii(c) == c \notin NonAscii
AsciiIgnore(s) == SelectSeq(s, IsAscii)


(***************************************************************************)
(* Floating point values as float() produces them from the text the model *)
(* uses: a finite value is the exact decimal m / 10^e (kept normalised, so *)
(* equal values are equal records), besides the infinities and NaN.       *)
(* Binary rounding is not modelled: the texts of the model carry at most   *)
(* MaxFrac fraction digits, far below the 12 significant digits of the     *)
(* delta text. Exponent and underscore forms are outside the alphabet.     *)
(***************************************************************************)
Digits == {"0", "1", "2", "3", "4", "5", "6", "7", "8", "9"}

DigitVal(c) ==
    CASE c = "0" -> 0 [] c = "1" -> 1 [] c = "2" -> 2 [] c = "3" -> 3
      [] c = "4" -> 4 [] c = "5" -> 5 [] c = "6" -> 6 [] c = "7" -> 7
      [] c = "8" -> 8 [] c = "9" -> 9

DigitChar(d) == <<"0", "1", "2", "3", "4", "5", "6", "7", "8", "9">>[d + 1]

\* str.lower() on the letters float() looks at.
LowerChar(c) ==
    CASE c = "I" -> "i" [] c = "N" -> "n" [] c = "F" -> "f" [] c = "A" -> "a"
      [] c = "T" -> "t" [] c = "Y" -> "y" [] OTHER -> c

Lower(s) == [i \in 1..Len(s) |-> LowerChar(s[i])]

RECURSIVE Pow10(_)
Pow10(e) == IF e = 0 THEN 1 ELSE 10 * Pow10(e - 1)

AbsInt(x) == IF x < 0 THEN -x ELSE x

None == [k |-> "none", m |-> 0, e |-> 0]
NaN == [k |-> "nan", m |-> 0, e |-> 0]
Inf(sign) == [k |-> "inf", m |-> sign, e |-> 0]

\* The finite value m / 10^e with trailing fraction zeros removed.
RECURSIVE Fin(_, _)
Fin(m, e) ==
    IF e > 0 /\ m % 10 = 0 THEN Fin(m \div 10, e - 1)
    ELSE [k |-> "fin", m |-> m, e |-> e]

RECURSIVE DigitsVal(_)
DigitsVal(s) ==
    IF s = <<>> THEN 0 ELSE 10 * DigitsVal(SubSeq(s, 1, Len(s) - 1)) + DigitVal(s[Len(s)])

AllDigits(s) == \A i \in 1..Len(s) : s[i] \in Digits

S_inf == <<"i", "n", "f">>
S_infinity == <<"i", "n", "f", "i", "n", "i", "t", "y">>
S_nan == <<"n", "a", "n">>

\* float(s): surrounding whitespace is ignored; an optional sign; then inf,
\* infinity or nan in any case, or decimal digits with at most one point
\* and at least one digit. Anything else raises ValueError.
PyFloat(s) ==
    LET t == Strip(s)
        signed == t # <<>> /\ Head(t) \in {"+", "-"}
        sign == IF signed /\ Head(t) = "-" THEN -1 ELSE 1
        body == IF signed THEN Tail(t) ELSE t
        pieces == Split(body, ".")
        ip == pieces[1]
        fp == IF Len(pieces) = 2 THEN pieces[2] ELSE <<>>
    IN  IF Lower(body) \in {S_inf, S_infinity} THEN Inf(sign)
        ELSE IF Lower(body) = S_nan THEN NaN
        ELSE IF /\ Len(pieces) <= 2
                /\ AllDigits(ip) /\ AllDigits(fp)
                /\ Len(ip) + Len(fp) > 0
        THEN Fin(sign * (DigitsVal(ip) * Pow10(Len(fp)) + DigitsVal(fp)), Len(fp))
        ELSE None

\* _to_float_or_none(s): float(s), or None when it raises ValueError.
to_float_or_none(s) == PyFloat(s)

\* a - b in IEEE arithmetic.
FSub(a, b) ==
    IF a.k = "nan" \/ b.k = "nan" THEN NaN
    ELSE IF a.k = "inf" /\ b.k = "inf" THEN (IF a.m = b.m THEN NaN ELSE a)
    ELSE IF a.k = "inf" THEN a
    ELSE IF b.k = "inf" THEN Inf(-b.m)
    ELSE LET e == IF a.e > b.e THEN a.e ELSE b.e
         IN  Fin(a.m * Pow10(e - a.e) - b.m * Pow10(e - b.e), e)

\* The numerator of the finite value x over the denominator 10^e (e >= x.e).
Scaled(x, e) == x.m * Pow10(e - x.e)

RECURSIVE NatText(_)
NatText(n) == IF n < 10 THEN <<DigitChar(n)>> ELSE NatText(n \div 10) \o <<DigitChar(n % 10)>>

RECURSIVE FracText(_, _)
FracText(n, width) ==
    IF width = 0 THEN <<>> ELSE FracText(n \div 10, width - 1) \o <<DigitChar(n % 10)>>

\* f"{x:.12g}" for the values of the model (fewer than 12 significant digits,
\* magnitude in the range printed in fixed notation): trailing zeros and a
\* trailing point are removed, which Fin's normal form already did.
Format12g(x) ==
    IF x.k = "nan" THEN S_nan
    ELSE IF x.k = "inf" THEN (IF x.m < 0 THEN <<"-">> ELSE <<>>) \o S_inf
    ELSE LET a == AbsInt(x.m)
             p == Pow10(x.e)
         IN  (IF x.m < 0 THEN <<"-">> ELSE <<>>)
             \o NatText(a \div p)
             \o (IF x.e = 0 THEN <<>> ELSE <<".">> \o FracText(a % p, x.e))

\* A tolerance is the exact fraction n / d, d > 0.
TolNeg(tol) == tol[1] < 0

\* A closeness test with the absolute tolerance only.
isclose_AbsOnly(a, b, tol) ==
    IF a.k = "nan" \/ b.k = "nan" THEN FALSE
    ELSE IF a = b THEN TRUE
    ELSE IF a.k = "inf" \/ b.k = "inf" THEN FALSE
    ELSE LET e == IF a.e > b.e THEN a.e ELSE b.e
         IN  AbsInt(Scaled(b, e) - Scaled(a, e)) * tol[2] <= tol[1] * Pow10(e)

\* math.isclose(a, b, rel_tol=tol, abs_tol=tol) for tol >= 0 (a negative
\* tolerance raises ValueError before anything else is looked at):
\*   a == b, else False when either is infinite, else
\*   diff <= |tol * b| or diff <= |tol * a| or diff <= tol   (false for NaN).
isclose(a, b, tol) ==
    IF a.k = "nan" \/ b.k = "nan" THEN FALSE
    ELSE IF a = b THEN TRUE
    ELSE IF a.k = "inf" \/ b.k = "inf" THEN FALSE
    ELSE LET e == IF a.e > b.e THEN a.e ELSE b.e
             am == AbsInt(Scaled(a, e))
             bm == AbsInt(Scaled(b, e))
             diff == AbsInt(Scaled(b, e) - Scaled(a, e))
         IN  \/ diff * tol[2] <= tol[1] * bm
             \/ diff * tol[2] <= tol[1] * am
             \/ diff * tol[2] <= tol[1] * Pow10(e)

\* compare_values(expected, actual, tol): [raised, match, delta].
compare_values(expected, actual, tol) ==
    LET exp == Strip(expected)
        act == Strip(actual)
        exp_num == to_float_or_none(exp)
        act_num == to_float_or_none(act)
        delta == FSub(act_num, exp_num)
    IN  IF exp = act THEN [raised |-> "", match |-> TRUE, delta |-> <<>>]
        ELSE IF exp_num = None \/ act_num = None
        THEN [raised |-> "", match |-> FALSE, delta |-> <<>>]
        ELSE IF TolNeg(tol)
        THEN [raised |-> "ValueError", match |-> FALSE, delta |-> <<>>]
        ELSE [raised |-> "", match |-> isclose(exp_num, act_num, tol),
              delta |-> Format12g(delta)]


(***************************************************************************)
(* Restore: construction of the full write command of a row.               *)
(***************************************************************************)
S_CBT_sp == <<"$", "C", "B", "T", " ">>
S_CFT_sp == <<"$", "C", "F", "T", " ">>

NonEmpty(p) == p # <<>>

\* parts = [p.strip() for p in cmd_write.split(";") if p.strip()] when
\* cmd_write holds a semicolon, else [cmd_write].
CmdParts(cmd_write) ==
    IF Contains(cmd_write, ";")
    THEN LET raw == Split(cmd_write, ";")
         IN  SelectSeq([i \in 1..Len(raw) |-> Strip(raw[i])], NonEmpty)
    ELSE <<cmd_write>>

\* A target that always takes a space before the value.
TargetWithValue_Space(target, value) == target \o <<" ">> \o value

\* "$CBT i,j" and "$CFT i,x" take a comma between index and value; every
\* other target takes a space.
TargetWithValue(target, value) ==
    IF StartsWith(target, S_CBT_sp) \/ StartsWith(target, S_CFT_sp)
    THEN LET sp == SplitNone1(target)
             idx == IF Len(sp) > 1 THEN Strip(sp[2]) ELSE <<>>
         IN  IF idx # <<>> THEN target \o <<",">> \o value
             ELSE target \o <<" ">> \o value
    ELSE target \o <<" ">> \o value

\* The full command of a row whose trimmed cmd_write and value are given:
\* [raised, full_cmd]. parts[-1] on an empty list raises IndexError.
BuildFullCmd(cmd_write, value) ==
    LET parts == CmdParts(cmd_write)
        n == Len(parts)
    IN  IF n = 0 THEN [raised |-> "IndexError", full_cmd |-> <<>>]
        ELSE [raised |-> "",
              full_cmd |-> Join(SubSeq(parts, 1, n - 1)
                                \o <<TargetWithValue(parts[n], value)>>, ";")]

(***************************************************************************)
(* Query/write engine: the transport operations of one exchange, in the    *)
(* order the code performs them. A transport outcome says which operation  *)
(* (0: none) raises serial.SerialException and which raw line readline     *)
(* returns (empty: the read timed out).                                    *)
(***************************************************************************)
OpReset == <<"reset_input_buffer">>
OpWrite(bytes) == <<"write", bytes>>
OpFlush == <<"flush">>
OpSleep(what) == <<"sleep", what>>
OpReadline == <<"readline">>

IsWrite(op) == op[1] = "write"
IsTransportOp(op) == op[1] # "sleep"

\* clear_com_buffer(ser)
clear_com_buffer == <<OpWrite(<<"\n">>), OpFlush, OpSleep("0.01")>>

\* send_cmd(ser, cmd, eol)
send_cmd(cmd, eol) ==
    clear_com_buffer \o <<OpWrite(AsciiIgnore(cmd \o eol)), OpFlush>>

\* A read_line that goes straight to readline().
read_line_NoClear == <<OpReadline>>

\* read_line(ser), up to and including readline()
read_line == clear_com_buffer \o <<OpReadline>>

\* query(ser, cmd, eol, settle)
query_ops(cmd, eol) ==
    <<OpReset>> \o send_cmd(cmd, eol) \o <<OpSleep("settle")>> \o read_line

\* The operations performed when operation number `fail` raises (0: none does).
Performed(ops, fail) ==
    IF fail = 0 \/ fail > Len(ops) THEN ops ELSE SubSeq(ops, 1, fail)

Raised(ops, fail) ==
    IF fail = 0 \/ fail > Len(ops) THEN "" ELSE "SerialException"

\* The positions of `ops` at which the transport is called (where it may raise).
FailPoints(ops) == {i \in 1..Len(ops) : IsTransportOp(ops[i])}

\* What read_line returns for the raw line: "" when nothing was read, else
\* the line decoded as ASCII (undecodable bytes dropped) and stripped.
LineText(raw) == IF raw = <<>> THEN <<>> ELSE Strip(AsciiIgnore(raw))

\* query(): [raised, resp, ops] under the transport outcome out = [fail, line].
query(cmd, eol, out) ==
    LET ops == query_ops(cmd, eol)
    IN  [raised |-> Raised(ops, out.fail),
         resp |-> IF Raised(ops, out.fail) # "" THEN <<>> ELSE LineText(out.line),
         ops |-> Performed(ops, out.fail)]

\* try_query(): ok is false exactly when the response is empty.
try_query(cmd, eol, out) ==
    LET q == query(cmd, eol, out)
    IN  [raised |-> q.raised, ok |-> q.raised = "" /\ q.resp # <<>>,
         resp |-> q.resp, ops |-> q.ops]

\* send_cmd() under the transport outcome: [raised, ops].
send(cmd, eol, fail) ==
    LET ops == send_cmd(cmd, eol)
    IN  [raised |-> Raised(ops, fail), ops |-> Performed(ops, fail)]


(***************************************************************************)
(* The program run: main() with one of the three mode drivers.             *)
(***************************************************************************)
VARIABLES
    pc,         \* where the run is: main, load, open, sanity, loop, exit_with,
                \* post, returned, raised, exited; "unit" in the unit specifications
    args,       \* the parsed command line: mode, dry_run, tol, csv, log, report, eol
    fs,         \* the files: path -> [exists, data]
    nrows,      \* len(rows) of the loaded snapshot, len(items) of the catalog
    idx,        \* rows handled so far by the mode's loop
    cur,        \* the row handled last, with what the handler made of it
    cnt,        \* the mode's counters
    results,    \* compare: the report rows appended so far
    serOpen,    \* the serial session is open
    opens,      \* how often open_serial succeeded
    io,         \* the transport operations of the last step, in order
    wire,       \* totals over the run: write calls, readline calls, operations
                \* performed while the session was not open
    exc,        \* the exception in flight or that ended the mode function
    openFailed, \* open_serial raised
    exit_code,  \* the process exit code (-1: still running)
    stats,      \* the dict the mode function returned
    unit        \* the call under test in the unit specifications

vars == <<pc, args, fs, nrows, idx, cur, cnt, results, serOpen, opens, io, wire,
          exc, openFailed, exit_code, stats, unit>>

\* Rows a snapshot may hold (MaxRows) and catalog entries a dump walks (MaxItems).
MaxRows == 2
MaxItems == 2

T_IDNQ == <<"*", "I", "D", "N", "?">>
T_FRQQ == <<"$", "F", "R", "Q", "?">>
T_FRQ == <<"$", "F", "R", "Q">>
T_RNDQ == <<"$", "R", "N", "D", "?">>
T_RND == <<"$", "R", "N", "D">>
T_CBTQ0 == <<"$", "C", "B", "T", "?", " ", "0">>
T_CBT0 == <<"$", "C", "B", "T", " ", "0">>
T_CBTQ5 == <<"$", "C", "B", "T", "?", " ", "5">>
T_CBT5 == <<"$", "C", "B", "T", " ", "5">>
EOL == <<"\n">>

\* build_dump_items(): the head of the catalog (IDN, FRQ, RND, CBT[0], ...).
Catalog ==
    << [key |-> <<"I", "D", "N">>, cmd_read |-> T_IDNQ, cmd_write |-> <<>>],
       [key |-> <<"F", "R", "Q">>, cmd_read |-> T_FRQQ, cmd_write |-> T_FRQ],
       [key |-> <<"R", "N", "D">>, cmd_read |-> T_RNDQ, cmd_write |-> T_RND],
       [key |-> <<"C", "B", "T", "[", "0", "]">>, cmd_read |-> T_CBTQ0,
        cmd_write |-> T_CBT0] >>

build_dump_items == SubSeq(Catalog, 1, IF MaxItems < Len(Catalog) THEN MaxItems ELSE Len(Catalog))

\* The key column of snapshot row i (a dumped snapshot has one key per row).
RowKey(i) == <<"K", DigitChar(i % 10)>>

\* The cmd_write, cmd_read and value columns a snapshot row may hold.
RowCmdWrites == {<<>>, <<" ">>, T_CBT5, <<";">>}
RowCmdReads == {<<>>, T_CBTQ5}
RowValues == {<<>>, <<" ">>, <<"1">>, <<"x">>}

\* What readline may return in a run.
RunLines == {<<>>, <<"1", "\r", "\n">>, <<"1", ".", "5", "\n">>, <<" ", "\n">>}

\* Transport outcomes of a query and of a send in a run: nothing raises, or the
\* write of the command raises, or (query) readline raises.
QueryOutcomes ==
    {[fail |-> 0, line |-> l] : l \in RunLines}
    \cup {[fail |-> f, line |-> <<>>] : f \in {5, 11}}
SendFails == {0, 4}

\* --tol values: the fractions 0, 1/2 and -1.
RunTols == {<<0, 1>>, <<1, 2>>, <<-1, 1>>}

Files == {"a.csv", "a.log", "r.csv"}

ArgSets ==
    {[mode |-> "dump", dry_run |-> FALSE, tol |-> <<0, 1>>, csv |-> "a.csv",
      log |-> "a.log", report |-> "r.csv", eol |-> EOL]}
    \cup {[mode |-> "restore", dry_run |-> d, tol |-> <<0, 1>>, csv |-> "a.csv",
           log |-> "a.log", report |-> "r.csv", eol |-> EOL] : d \in BOOLEAN}
    \cup {[mode |-> "compare", dry_run |-> FALSE, tol |-> t, csv |-> "a.csv",
           log |-> l, report |-> r, eol |-> EOL] :
          t \in RunTols, l \in {"a.log", "a.csv"}, r \in {"r.csv", "a.csv"}}

Cnt0 ==
    [ok |-> 0, fail |-> 0, skipped |-> 0, dry_run |-> 0, writes |-> 0,
     bad_verify |-> 0, write_fail |-> 0, failures |-> 0,
     match |-> 0, mismatch |-> 0, read_fail |-> 0]

NoCur ==
    [key |-> <<>>, cmd_read |-> <<>>, cmd_write |-> <<>>, value |-> <<>>,
     full_cmd |-> <<>>, tag |-> "", line |-> <<>>, queried |-> FALSE,
     actual |-> <<>>, status |-> "", delta |-> <<>>]

NoUnit == [fn |-> "none"]
NoStats == [mode |-> "none"]
Wire0 == [writes |-> 0, reads |-> 0, closed |-> 0]

Absent == [exists |-> FALSE, data |-> <<>>]
Snapshot == [exists |-> TRUE, data |-> <<"snapshot">>]

\* open(path, "a").write(chunk) and open(path, "w").write(chunk)
FsAppend(f, path, chunk) ==
    [f EXCEPT ![path] = [exists |-> TRUE, data |-> Append(@.data, chunk)]]
FsWrite(f, path, chunk) ==
    [f EXCEPT ![path] = [exists |-> TRUE, data |-> <<chunk>>]]

\* The totals after the operations `ops` of a step.
IsRead(op) == op[1] = "readline"
WireAfter(w, ops, open) ==
    [writes |-> w.writes + Len(SelectSeq(ops, IsWrite)),
     reads |-> w.reads + Len(SelectSeq(ops, IsRead)),
     closed |-> w.closed + (IF open THEN 0 ELSE Len(SelectSeq(ops, IsTransportOp)))]

Init ==
    /\ pc = "main"
    /\ args \in ArgSets
    /\ \E present \in BOOLEAN :
         fs = [f \in Files |->
                 IF f = "a.csv" /\ present /\ args.mode # "dump" THEN Snapshot ELSE Absent]
    /\ nrows = 0
    /\ idx = 0
    /\ cur = NoCur
    /\ cnt = Cnt0
    /\ results = <<>>
    /\ serOpen = FALSE
    /\ opens = 0
    /\ io = <<>>
    /\ wire = Wire0
    /\ exc = ""
    /\ openFailed = FALSE
    /\ exit_code = -1
    /\ stats = NoStats
    /\ unit = NoUnit

\* main(): a restore or compare whose snapshot file is missing ends in
\* p.error (exit code 2) before anything is opened.
CheckArgs ==
    /\ pc = "main"
    /\ IF args.mode \in {"restore", "compare"} /\ ~fs[args.csv].exists
       THEN pc' = "exited" /\ exit_code' = 2
       ELSE pc' = "load" /\ exit_code' = exit_code
    /\ io' = <<>>
    /\ UNCHANGED <<args, fs, nrows, idx, cur, cnt, results, serOpen, opens, wire,
                   exc, openFailed, stats, unit>>

\* dump_to_csv: items = build_dump_items().
\* restore_from_csv, compare_from_csv: rows = list(csv.DictReader(f)); the
\* open may raise OSError, and nothing is open yet. The rows themselves are
\* drawn as the loop reaches them.
Load ==
    /\ pc = "load"
    /\ \/ /\ args.mode = "dump"
          /\ nrows' = Len(build_dump_items)
          /\ pc' = "open" /\ exc' = exc
       \/ /\ args.mode # "dump"
          /\ \E n \in 0..MaxRows : nrows' = n
          /\ pc' = "open" /\ exc' = exc
       \/ /\ args.mode # "dump"
          /\ nrows' = nrows
          /\ pc' = "raised" /\ exc' = "OSError"
    /\ io' = <<>>
    /\ UNCHANGED <<args, fs, idx, cur, cnt, results, serOpen, opens, wire,
                   openFailed, exit_code, stats, unit>>

\* with open(log_path, "a") as log, open_serial(cfg) as ser: and the START
\* line. Opening the log may raise OSError; open_serial may raise
\* SerialException, and then the log (created, empty) is closed again.
OpenSession ==
    /\ pc = "open"
    /\ \/ /\ pc' = "raised" /\ exc' = "OSError"
          /\ UNCHANGED <<fs, serOpen, opens, openFailed>>
       \/ /\ pc' = "raised" /\ exc' = "SerialException"
          /\ openFailed' = TRUE
          /\ fs' = [fs EXCEPT ![args.log] = [exists |-> TRUE, data |-> @.data]]
          /\ UNCHANGED <<serOpen, opens>>
       \/ /\ pc' = IF args.mode = "dump" THEN "loop" ELSE "sanity"
          /\ serOpen' = TRUE
          /\ opens' = opens + 1
          /\ fs' = FsAppend(fs, args.log, "START")
          /\ UNCHANGED <<exc, openFailed>>
    /\ io' = <<>>
    /\ UNCHANGED <<args, nrows, idx, cur, cnt, results, wire, exit_code, stats, unit>>

\* restore, compare: ok, idn = try_query(ser, "*IDN?", cfg.eol), outside any try.
Sanity ==
    /\ pc = "sanity"
    /\ \E out \in QueryOutcomes :
         LET t == try_query(T_IDNQ, args.eol, out)
         IN  /\ io' = t.ops
             /\ wire' = WireAfter(wire, t.ops, serOpen)
             /\ exc' = t.raised
             /\ pc' = IF t.raised # "" THEN "exit_with" ELSE "loop"
    /\ UNCHANGED <<args, fs, nrows, idx, cur, cnt, results, serOpen, opens,
                   openFailed, exit_code, stats, unit>>

\* What a row handler hands back: the exception it lets escape (if any), the
\* counters, the row as handled, and the transport operations it performed.
Outcome(raised, c, row, ops) == [raised |-> raised, cnt |-> c, cur |-> row, io |-> ops]

RowOf(key, r) ==
    [NoCur EXCEPT !.key = Strip(key), !.cmd_read = r.cmd_read,
                  !.cmd_write = r.cmd_write, !.value = r.value]

\* dump_to_csv, the body of "for it in items".
DumpStep(it, c, eol, out) ==
    LET t == try_query(it.cmd_read, eol, out)
        row == [NoCur EXCEPT !.key = it.key, !.cmd_read = it.cmd_read,
                             !.cmd_write = it.cmd_write, !.queried = TRUE,
                             !.line = out.line]
    IN  IF t.raised # "" THEN Outcome(t.raised, c, row, t.ops)
        ELSE IF t.ok
        THEN Outcome("", [c EXCEPT !.ok = @ + 1],
                     [row EXCEPT !.tag = "[ OK ]", !.value = t.resp, !.actual = t.resp],
                     t.ops)
        ELSE Outcome("", [c EXCEPT !.fail = @ + 1],
                     [row EXCEPT !.tag = "[FAIL]", !.value = <<>>], t.ops)

\* A skip test that wants both columns empty.
RestoreSkips_Both(cmd_write, value) == cmd_write = <<>> /\ value = <<>>

\* restore_from_csv: if cmd_write == "" or value == "" (both trimmed).
RestoreSkips(cmd_write, value) == cmd_write = <<>> \/ value = <<>>

S_no_response == <<"(", "n", "o", " ", "r", "e", "s", "p", "o", "n", "s", "e", ")">>

\* restore_from_csv, after a successful send_cmd: write_count += 1, the
\* pause, and the best-effort verification when the row has a cmd_read.
\* An exception of the verification query is caught by the row's except.
RestoreVerify(row, c, value, cmd_read, eol, out, sent) ==
    LET c1 == [c EXCEPT !.writes = @ + 1]
        io1 == sent \o <<OpSleep("0.05")>>
        t == try_query(cmd_read, eol, out)
        verify == Strip(t.resp)
        v == compare_values(value, verify, <<0, 1>>)
        q == [row EXCEPT !.queried = TRUE, !.line = out.line]
    IN  IF cmd_read = <<>> THEN Outcome("", c1, [row EXCEPT !.tag = "[ OK ]"], io1)
        ELSE IF t.raised # ""
        THEN Outcome("", [c1 EXCEPT !.write_fail = @ + 1, !.failures = @ + 1],
                     [q EXCEPT !.tag = "[FAIL]"], io1 \o t.ops)
        ELSE IF ~t.ok
        THEN Outcome("", c1, [q EXCEPT !.tag = "[ OK ]", !.actual = S_no_response],
                     io1 \o t.ops)
        ELSE IF v.match
        THEN Outcome("", c1, [q EXCEPT !.tag = "[ OK ]", !.actual = verify], io1 \o t.ops)
        ELSE Outcome("", [c1 EXCEPT !.bad_verify = @ + 1, !.failures = @ + 1],
                     [q EXCEPT !.tag = "[BAD ]", !.actual = verify], io1 \o t.ops)

\* restore_from_csv, the body of "for r in rows".
RestoreStep(key, r, c, dry_run, eol, sfail, out) ==
    LET cmd_write == Strip(r.cmd_write)
        value == Strip(r.value)
        cmd_read == Strip(r.cmd_read)
        row == RowOf(key, r)
        b == BuildFullCmd(cmd_write, value)
        built == [row EXCEPT !.full_cmd = b.full_cmd]
        s == send(b.full_cmd, eol, sfail)
    IN  IF RestoreSkips(cmd_write, value)
        THEN Outcome("", [c EXCEPT !.skipped = @ + 1], [row EXCEPT !.tag = "[SKIP]"], <<>>)
        ELSE IF b.raised # "" THEN Outcome(b.raised, c, row, <<>>)
        ELSE IF dry_run
        THEN Outcome("", [c EXCEPT !.dry_run = @ + 1], [built EXCEPT !.tag = "[DRY ]"], <<>>)
        ELSE IF s.raised # ""
        THEN Outcome("", [c EXCEPT !.write_fail = @ + 1, !.failures = @ + 1],
                     [built EXCEPT !.tag = "[FAIL]"], s.ops)
        ELSE RestoreVerify(built, c, value, cmd_read, eol, out, s.ops)

\* A skip test that forgets the expected value.
CompareSkips_ReadOnly(cmd_read, expected) == cmd_read = <<>>

\* compare_from_csv: if cmd_read == "" or expected == "" (both trimmed).
CompareSkips(cmd_read, expected) == cmd_read = <<>> \/ expected = <<>>

\* compare_from_csv: the status of a row whose live value was read.
CompareStatus(is_match) == IF is_match THEN "match" ELSE "mismatch"

\* compare_from_csv, the body of "for r in rows". The row's report dict is
\* cur (key, cmd_read, expected = trimmed value, actual, status, delta).
CompareStep(key, r, c, tol, eol, out) ==
    LET cmd_read == Strip(r.cmd_read)
        expected == Strip(r.value)
        row == RowOf(key, r)
        t == try_query(cmd_read, eol, out)
        q == [row EXCEPT !.queried = TRUE, !.line = out.line]
        v == compare_values(expected, t.resp, tol)
    IN  IF CompareSkips(cmd_read, expected)
        THEN Outcome("", [c EXCEPT !.skipped = @ + 1],
                     [row EXCEPT !.tag = "[SKIP]", !.status = "skipped"], <<>>)
        ELSE IF t.raised # "" THEN Outcome(t.raised, c, q, t.ops)
        ELSE IF ~t.ok
        THEN Outcome("", [c EXCEPT !.read_fail = @ + 1],
                     [q EXCEPT !.tag = "[FAIL]", !.status = "read_fail"], t.ops)
        ELSE IF v.raised # "" THEN Outcome(v.raised, c, q, t.ops)
        ELSE IF v.match
        THEN Outcome("", [c EXCEPT !.match = @ + 1],
                     [q EXCEPT !.tag = "[ OK ]", !.status = CompareStatus(TRUE),
                               !.actual = t.resp, !.delta = v.delta], t.ops)
        ELSE Outcome("", [c EXCEPT !.mismatch = @ + 1],
                     [q EXCEPT !.tag = "[DIFF]", !.status = CompareStatus(FALSE),
                               !.actual = t.resp, !.delta = v.delta], t.ops)

\* The effect of one loop iteration with outcome o: an escaping exception
\* leaves the loop for the exit of the with block.
Iterate(o) ==
    /\ cnt' = o.cnt
    /\ cur' = o.cur
    /\ io' = o.io
    /\ wire' = WireAfter(wire, o.io, serOpen)
    /\ exc' = o.raised
    /\ IF o.raised # ""
       THEN pc' = "exit_with" /\ idx' = idx
       ELSE pc' = pc /\ idx' = idx + 1

\* A dry-run flag that main does not pass on.
DryRun_Dropped(a) == FALSE

\* main: restore_from_csv(..., dry_run=getattr(args, "dry_run", False)).
DryRun(a) == a.dry_run

DumpRow ==
    /\ pc = "loop" /\ args.mode = "dump" /\ idx < nrows
    /\ \E out \in QueryOutcomes :
         Iterate(DumpStep(build_dump_items[idx + 1], cnt, args.eol, out))
    /\ UNCHANGED <<args, fs, nrows, results, serOpen, opens, openFailed, exit_code,
                   stats, unit>>

RestoreRow ==
    /\ pc = "loop" /\ args.mode = "restore" /\ idx < nrows
    /\ \E cw \in RowCmdWrites, cr \in RowCmdReads, val \in RowValues,
          sfail \in SendFails, out \in QueryOutcomes :
         Iterate(RestoreStep(RowKey(idx + 1),
                             [cmd_read |-> cr, cmd_write |-> cw, value |-> val],
                             cnt, DryRun(args), args.eol, sfail, out))
    /\ UNCHANGED <<args, fs, nrows, results, serOpen, opens, openFailed, exit_code,
                   stats, unit>>

CompareRow ==
    /\ pc = "loop" /\ args.mode = "compare" /\ idx < nrows
    /\ \E cw \in RowCmdWrites, cr \in RowCmdReads, val \in RowValues,
          out \in QueryOutcomes :
         LET o == CompareStep(RowKey(idx + 1),
                              [cmd_read |-> cr, cmd_write |-> cw, value |-> val],
                              cnt, args.tol, args.eol, out)
         IN  /\ Iterate(o)
             /\ results' = IF o.raised # "" THEN results
                           ELSE Append(results, [key |-> o.cur.key,
                                                 status |-> o.cur.status])
    /\ UNCHANGED <<args, fs, nrows, serOpen, opens, openFailed, exit_code, stats, unit>>

\* The code between the loop and the end of the with block.
\*   dump: the snapshot is written (open(csv_path, "w") may raise OSError),
\*         then the END line;
\*   restore: the END line (and the jumper hint when failures > 0);
\*   compare: nothing.
EndOfLoop ==
    /\ pc = "loop" /\ idx = nrows
    /\ pc' = "exit_with"
    /\ \/ /\ args.mode = "dump"
          /\ \/ fs' = FsAppend(FsWrite(fs, args.csv, "snapshot"), args.log, "END")
                /\ exc' = ""
             \/ fs' = fs /\ exc' = "OSError"
       \/ /\ args.mode = "restore"
          /\ fs' = FsAppend(fs, args.log, "END")
          /\ exc' = ""
       \/ /\ args.mode = "compare"
          /\ fs' = fs /\ exc' = ""
    /\ io' = <<>>
    /\ UNCHANGED <<args, nrows, idx, cur, cnt, results, serOpen, opens, wire,
                   openFailed, exit_code, stats, unit>>

\* A session closed on the normal path only (no with block, no finally).
ClosesSession_OnSuccess(e) == e = ""

\* Whether the with block's exit closes the serial session (Serial.__exit__).
ClosesSession(e) == TRUE

\* The exit of the with block, normal or by exception: ser and log are closed.
ExitWith ==
    /\ pc = "exit_with"
    /\ serOpen' = (serOpen /\ ~ClosesSession(exc))
    /\ pc' = IF exc # "" THEN "raised" ELSE "post"
    /\ io' = <<>>
    /\ UNCHANGED <<args, fs, nrows, idx, cur, cnt, results, opens, wire, exc,
                   openFailed, exit_code, stats, unit>>

\* The path compare_from_csv writes its report to.
ReportTarget(a) == a.report

\* After the with block.
\*   dump, restore: return the counts.
\*   compare: write the report (open(report_path, "w") may raise OSError),
\*            append the END line to the log, return the counts.
Post ==
    /\ pc = "post"
    /\ \/ /\ args.mode \in {"dump", "restore"}
          /\ pc' = "returned"
          /\ stats' = [mode |-> args.mode, total |-> IF args.mode = "dump" THEN idx ELSE nrows,
                       cnt |-> cnt]
          /\ UNCHANGED <<fs, exc>>
       \/ /\ args.mode = "compare"
          /\ pc' = "returned"
          /\ fs' = FsAppend(FsWrite(fs, ReportTarget(args), "report"), args.log, "END")
          /\ stats' = [mode |-> args.mode, total |-> Len(results), cnt |-> cnt]
          /\ exc' = exc
       \/ /\ args.mode = "compare"
          /\ pc' = "raised"
          /\ exc' = "OSError"
          /\ UNCHANGED <<fs, stats>>
    /\ io' = <<>>
    /\ UNCHANGED <<args, nrows, idx, cur, cnt, results, serOpen, opens, wire,
                   openFailed, exit_code, unit>>

\* main(): the summary is printed and the process ends with 0; a
\* serial.SerialException from the mode function, whenever it was raised, is
\* logged as a failure to open the port and the process exits with 1; any
\* other exception is not caught and the interpreter exits with 1.
ExitCodeFor(state, e) == IF state = "returned" THEN 0 ELSE 1

MainExit ==
    /\ pc \in {"returned", "raised"}
    /\ pc' = "exited"
    /\ exit_code' = ExitCodeFor(pc, exc)
    /\ fs' = IF pc = "raised" /\ exc = "SerialException"
             THEN FsAppend(fs, args.log, "ERROR") ELSE fs
    /\ io' = <<>>
    /\ UNCHANGED <<args, nrows, idx, cur, cnt, results, serOpen, opens, wire, exc,
                   openFailed, stats, unit>>

Next ==
    \/ CheckArgs
    \/ Load
    \/ OpenSession
    \/ Sanity
    \/ DumpRow
    \/ RestoreRow
    \/ CompareRow
    \/ EndOfLoop
    \/ ExitWith
    \/ Post
    \/ MainExit

Spec == Init /\ [][Next]_vars

(***************************************************************************)
(* Unit specifications: one call of compare_values, of the restore row     *)
(* handler (command construction) and of query, over texts that exercise   *)
(* every branch of each. The run's variables stay idle.                    *)
(***************************************************************************)
UnitArgs ==
    [mode |-> "unit", dry_run |-> FALSE, tol |-> <<0, 1>>, csv |-> "a.csv",
     log |-> "a.log", report |-> "r.csv", eol |-> EOL]

UnitIdle ==
    /\ pc = "unit"
    /\ args = UnitArgs
    /\ fs = [f \in Files |-> Absent]
    /\ nrows = 0
    /\ idx = 0
    /\ cur = NoCur
    /\ cnt = Cnt0
    /\ results = <<>>
    /\ serOpen = FALSE
    /\ opens = 0
    /\ io = <<>>
    /\ wire = Wire0
    /\ exc = ""
    /\ openFailed = FALSE
    /\ exit_code = -1
    /\ stats = NoStats

UnitFrame ==
    UNCHANGED <<pc, args, fs, nrows, idx, cur, cnt, results, serOpen, opens, io,
                wire, exc, openFailed, exit_code, stats>>

\* Expected and actual texts: equal after trimming, equal as numbers only,
\* close, far, signed, non-numeric, infinite, NaN.
ValueTexts ==
    { <<>>,
      <<"1">>,
      <<" ", "1", " ">>,
      <<"1", ".", "0">>,
      <<"1", ".", "5">>,
      <<"2">>,
      <<"-", "1">>,
      <<"+", "1">>,
      <<".", "5">>,
      <<"a", "b", "c">>,
      <<"1", "x">>,
      <<"i", "n", "f">>,
      <<"I", "n", "f", "i", "n", "i", "t", "y">>,
      <<"-", "i", "n", "f">>,
      <<"n", "a", "n">> }

\* Tolerances: -1, 0, 1/10, 1/2, 1.
Tolerances == {<<-1, 1>>, <<0, 1>>, <<1, 10>>, <<1, 2>>, <<1, 1>>}

InitCompare ==
    /\ UnitIdle
    /\ \E e \in ValueTexts, a \in ValueTexts, t \in Tolerances :
         unit = [fn |-> "compare_values", expected |-> e, actual |-> a, tol |-> t,
                 done |-> FALSE, res |-> [raised |-> "", match |-> FALSE, delta |-> <<>>]]

CallCompareValues ==
    /\ unit.fn = "compare_values" /\ ~unit.done
    /\ unit' = [unit EXCEPT !.done = TRUE,
                            !.res = compare_values(unit.expected, unit.actual, unit.tol)]
    /\ UnitFrame

NextCompare == CallCompareValues

SpecCompare == InitCompare /\ [][NextCompare]_vars

\* cmd_write columns: plain, padded, indexed ($CBT, $CFT), look-alikes of the
\* indexed commands, chains, chains with padding and with blank segments.
WriteTexts ==
    { <<>>,
      <<" ">>,
      <<"$", "F", "R", "Q">>,
      <<" ", "$", "R", "N", "D", " ">>,
      <<"$", "C", "B", "T", " ", "5">>,
      <<"$", "C", "B", "T", " ", " ", "5">>,
      <<"$", "C", "F", "T", " ", "1", "2">>,
      <<"$", "C", "B", "T", "?", " ", "5">>,
      <<"$", "c", "b", "t", " ", "5">>,
      <<"$", "C", "R", "N", " ", "2", ";", "$", "C", "M", "J">>,
      <<"$", "C", "R", "N", " ", "2", " ", ";", " ", "$", "C", "M", "N">>,
      <<"$", "C", "R", "N", " ", "2", ";", "$", "C", "M", "J", ";">>,
      <<"$", "C", "R", "N", " ", "2", ";", ";", "$", "C", "F", "T", " ", "7">>,
      <<"$", "C", "R", "N", " ", "1", ";", "$", "C", "B", "T", " ", "3">>,
      <<";">>,
      <<" ", ";", " ">> }

WriteValues == { <<>>,
                 <<" ">>,
                 <<"2", "0", "0">>,
                 <<" ", "1", ".", "5", " ">> }

InitBuild ==
    /\ UnitIdle
    /\ \E cw \in WriteTexts, v \in WriteValues, d \in BOOLEAN :
         unit = [fn |-> "restore_row", cmd_write |-> cw, value |-> v, dry_run |-> d,
                 done |-> FALSE, res |-> Outcome("", Cnt0, NoCur, <<>>)]

\* One iteration of restore's loop on a row without cmd_read, nothing raising
\* on the transport.
CallRestoreRow ==
    /\ unit.fn = "restore_row" /\ ~unit.done
    /\ unit' = [unit EXCEPT
                  !.done = TRUE,
                  !.res = RestoreStep(RowKey(1),
                                      [cmd_read |-> <<>>, cmd_write |-> unit.cmd_write,
                                       value |-> unit.value],
                                      Cnt0, unit.dry_run, EOL, 0,
                                      [fail |-> 0, line |-> <<>>])]
    /\ UnitFrame

NextBuild == CallRestoreRow

SpecBuild == InitBuild /\ [][NextBuild]_vars

QueryCmds ==
    { <<"*", "I", "D", "N", "?">>,
      <<"$", "F", "R", "Q", "?">>,
      <<"$", "C", "B", "T", "?", " ", "5">>,
      <<"$", "C", "R", "N", " ", "2", ";", "$", "C", "M", "J", "?">>,
      <<>> }

\* --eol: "\n" (the default), "\r\n", "\r".
Eols == {<<"\n">>, <<"\r", "\n">>, <<"\r">>}

\* Raw lines readline may return: nothing (timeout), a value, a padded value,
\* a blank line, a line with a byte outside ASCII.
RawLines ==
    { <<>>,
      <<"1", "\r", "\n">>,
      <<" ", "1", ".", "5", " ", "\n">>,
      <<"\r", "\n">>,
      <<"S", "R", "7", "2", "0", "\n">>,
      <<"<e9>", "7", "\n">> }

InitQuery ==
    /\ UnitIdle
    /\ \E c \in QueryCmds, e \in Eols :
         unit = [fn |-> "query", cmd |-> c, eol |-> e, done |-> FALSE,
                 out |-> [fail |-> 0, line |-> <<>>],
                 res |-> [raised |-> "", resp |-> <<>>, ops |-> <<>>]]

\* One query(ser, cmd, eol): every raw line, and an exception at every
\* transport call.
CallQuery ==
    /\ unit.fn = "query" /\ ~unit.done
    /\ \E out \in {[fail |-> 0, line |-> l] : l \in RawLines}
                   \cup {[fail |-> f, line |-> <<>>] :
                           f \in FailPoints(query_ops(unit.cmd, unit.eol))} :
         unit' = [unit EXCEPT !.done = TRUE, !.out = out,
                              !.res = query(unit.cmd, unit.eol, out)]
    /\ UnitFrame

NextQuery == CallQuery

SpecQuery == InitQuery /\ [][NextQuery]_vars

(***************************************************************************)
(* The claims.                                                             *)
(***************************************************************************)

\* A step of the mode's loop that handled a row (no exception escaped it).
RowHandled(mode) == pc = "loop" /\ args.mode = mode /\ idx' = idx + 1

\* C1: when restore handles a snapshot row whose trimmed cmd_write or
\* trimmed value is empty, it performs no transport operation at all (no
\* write, no verification query) and the only counter that changes is
\* 'skipped', which grows by one; with dry_run set or not.
C1_SkippedRowNotReplayed ==
    [][ (RowHandled("restore")
         /\ (Strip(cur'.cmd_write) = <<>> \/ Strip(cur'.value) = <<>>))
        => /\ io' = <<>>
           /\ wire' = wire
           /\ ~cur'.queried
           /\ cur'.tag = "[SKIP]"
           /\ cnt' = [cnt EXCEPT !.skipped = @ + 1] ]_vars

\* A real (not dry) restore has skipped a row that has a write command but a
\* blank value.
C1_Witness ==
    /\ args.mode = "restore" /\ ~args.dry_run /\ pc = "loop"
    /\ Strip(cur.cmd_write) # <<>> /\ cur.value = <<" ">>
    /\ cur.tag = "[SKIP]" /\ cnt.skipped = 1

\* The transport totals of a run that performed the first n operations of
\* the *IDN? sanity query and nothing else.
SanityOnly(n) ==
    WireAfter(Wire0, SubSeq(query_ops(T_IDNQ, args.eol), 1, n), TRUE)

\* C2 as stated: a dry-run restore that returns has written nothing to the
\* serial session and issued no query, every non-skipped row is counted
\* under 'dry_run', and writes = 0.
C2_DryRunSendsNothing ==
    (args.mode = "restore" /\ args.dry_run /\ pc = "returned")
    => /\ wire.writes = 0
       /\ wire.reads = 0
       /\ stats.cnt.writes = 0
       /\ stats.cnt.dry_run + stats.cnt.skipped = stats.total

\* C2 amended: in a dry-run restore the only transport traffic of the whole
\* run is the one *IDN? sanity query made before the rows; no row sends a
\* write or a verification query; each non-skipped row has its full command
\* constructed and logged under [DRY ]; and on return every row is counted
\* under 'dry_run' or 'skipped', with writes = bad_verify = write_fail = 0.
C2_DryRunSendsOnlySanityQuery ==
    (args.mode = "restore" /\ args.dry_run)
    => /\ \E n \in 0..Len(query_ops(T_IDNQ, args.eol)) : wire = SanityOnly(n)
       /\ (pc = "loop" => wire = SanityOnly(Len(query_ops(T_IDNQ, args.eol))))
       /\ (pc = "loop" /\ idx > 0) => (io = <<>> /\ ~cur.queried)
       /\ (pc = "loop" /\ idx > 0
           /\ Strip(cur.cmd_write) # <<>> /\ Strip(cur.value) # <<>>)
          => (cur.tag = "[DRY ]" /\ cur.full_cmd # <<>>)
       /\ pc = "returned"
          => /\ stats.cnt.writes = 0
             /\ stats.cnt.bad_verify = 0
             /\ stats.cnt.write_fail = 0
             /\ stats.cnt.failures = 0
             /\ stats.cnt.dry_run + stats.cnt.skipped = stats.total

\* A dry-run restore returned after logging two rows under [DRY ], having
\* written the three lines of the sanity query to the port.
C2_Witness ==
    /\ args.mode = "restore" /\ args.dry_run /\ pc = "returned"
    /\ stats.total = 2 /\ stats.cnt.dry_run = 2
    /\ wire.writes = 3 /\ wire.reads = 1

Statuses == {"match", "mismatch", "read_fail", "skipped"}

CountStatus(st) == Cardinality({i \in 1..Len(results) : results[i].status = st})

\* C3: compare appends exactly one report row per snapshot row, in snapshot
\* order, each with one of the four statuses: 'skipped' iff the trimmed
\* cmd_read or the trimmed value is empty (and then nothing is sent);
\* otherwise 'read_fail' iff the live response is empty; otherwise 'match'
\* or 'mismatch' as compare_values decides. Each counter counts the rows of
\* its status, and the returned counts add up to total = number of rows.
C3_CompareReport ==
    args.mode = "compare"
    => /\ Len(results) = idx
       /\ \A i \in 1..Len(results) :
            results[i].key = RowKey(i) /\ results[i].status \in Statuses
       /\ cnt.match = CountStatus("match")
       /\ cnt.mismatch = CountStatus("mismatch")
       /\ cnt.read_fail = CountStatus("read_fail")
       /\ cnt.skipped = CountStatus("skipped")
       /\ (idx > 0 /\ exc = "")
          => LET skip == Strip(cur.cmd_read) = <<>> \/ Strip(cur.value) = <<>>
                 live == LineText(cur.line)
                 v == compare_values(Strip(cur.value), live, args.tol)
             IN  /\ cur.status = results[idx].status
                 /\ cur.status = "skipped" <=> skip
                 /\ skip => (~cur.queried /\ io = <<>>)
                 /\ ~skip => (cur.status = "read_fail" <=> live = <<>>)
                 /\ (~skip /\ live # <<>>)
                    => /\ cur.status = (IF v.match THEN "match" ELSE "mismatch")
                       /\ cur.actual = live
                       /\ cur.delta = v.delta
       /\ pc = "returned"
          => /\ stats.total = nrows
             /\ stats.total = Len(results)
             /\ stats.cnt.match + stats.cnt.mismatch + stats.cnt.read_fail
                + stats.cnt.skipped = stats.total

\* A compare returned whose two rows were a row without expected value
\* (skipped) and a row whose live read timed out (read_fail).
C3_Witness ==
    /\ args.mode = "compare" /\ pc = "returned"
    /\ Len(results) = 2
    /\ results[1].status = "skipped" /\ results[2].status = "read_fail"
    /\ stats.total = 2

\* The separator the claim gives a final segment: a comma after an indexed
\* $CBT or $CFT command, a space after any other.
ClaimedAttach(seg, value) ==
    seg \o <<IF StartsWith(seg, S_CBT_sp) \/ StartsWith(seg, S_CFT_sp) THEN "," ELSE " ">>
        \o value

ClaimedLine(segs, value) ==
    Join(SubSeq(segs, 1, Len(segs) - 1) \o <<ClaimedAttach(segs[Len(segs)], value)>>, ";")

\* The row handler ran on a row that is not skipped.
BuildCase ==
    /\ unit.fn = "restore_row" /\ unit.done
    /\ Strip(unit.cmd_write) # <<>> /\ Strip(unit.value) # <<>>

\* C4 as stated: the built command is cmd_write's semicolon-separated
\* segments, unmodified and in order, with the value attached to the final
\* one only (by a comma after an indexed $CBT/$CFT, by a space otherwise).
C4_ValueOnFinalSegment ==
    (BuildCase /\ unit.res.raised = "")
    => unit.res.cur.full_cmd
       = ClaimedLine(Split(Strip(unit.cmd_write), ";"), Strip(unit.value))

\* The segments of cmd_write that are not blank, each trimmed.
TrimmedSegments(cmd_write) ==
    LET raw == Split(cmd_write, ";")
    IN  SelectSeq([i \in 1..Len(raw) |-> Strip(raw[i])], NonEmpty)

\* C4 amended: the segments are taken trimmed of surrounding whitespace and
\* blank segments are dropped; the value is attached only to the last of
\* them (comma after an indexed $CBT/$CFT, one space otherwise) and the ones
\* before it appear in order, joined by semicolons; that line, with the
\* terminator, is the one command written to the port unless dry_run is
\* set. A cmd_write of blank segments only builds nothing: IndexError.
C4_ValueOnLastNonBlankSegment ==
    BuildCase
    => LET segs == TrimmedSegments(Strip(unit.cmd_write))
           line == ClaimedLine(segs, Strip(unit.value))
           written == SelectSeq(unit.res.io, IsWrite)
       IN  /\ unit.res.raised = (IF segs = <<>> THEN "IndexError" ELSE "")
           /\ segs # <<>>
              => /\ unit.res.cur.full_cmd = line
                 /\ IF unit.dry_run THEN written = <<>>
                    ELSE written = <<OpWrite(<<"\n">>), OpWrite(line \o EOL)>>

\* A chained command with a blank segment and an indexed final segment was
\* built and written.
C4_Witness ==
    /\ BuildCase /\ ~unit.dry_run
    /\ unit.cmd_write = <<"$", "C", "R", "N", " ", "2", ";", ";", "$", "C", "F", "T", " ", "7">>
    /\ unit.value = <<"2", "0", "0">>
    /\ unit.res.cur.full_cmd = <<"$", "C", "R", "N", " ", "2", ";", "$", "C", "F", "T", " ", "7", ",", "2", "0", "0">>

\* C5: the process exit code is 1 exactly when opening the transport
\* failed, and every run in which the transport opened exits with 0,
\* whatever the transport did afterwards. (Stated for the runs in which no
\* file operation failed and no exception other than the transport's was
\* raised: the claim is about the transport.)
C5_ExitCodeOnlyForOpenFailure ==
    (pc = "exited" /\ exc \in {"", "SerialException"})
    => /\ exit_code = 1 <=> openFailed
       /\ opens > 0 => exit_code = 0

\* What went wrong with the row handled last: a query for it returned the
\* empty string, a write or query raised, or the values did not match.
RowReadFailed(row) == row.queried /\ LineText(row.line) = <<>>
RowHadError(row) == RowReadFailed(row) \/ row.tag \in {"[FAIL]", "[BAD ]", "[DIFF]"}

\* The counters that report something other than success.
ErrorCount(c) ==
    c.fail + c.skipped + c.bad_verify + c.write_fail + c.failures + c.mismatch
    + c.read_fail

\* C6: whenever handling a row met a read failure, a write exception or a
\* mismatch, one of the mode's counters that report trouble grows in that
\* step; in particular a restore verification query that returns the empty
\* string shows in the counters.
C6_ErrorsCounted ==
    [][ (pc = "loop" /\ idx' = idx + 1 /\ RowHadError(cur'))
        => ErrorCount(cnt') > ErrorCount(cnt) ]_vars

\* C7: when compare returns, the snapshot file holds what it held before,
\* whatever path the command line gave for the report. (Stated for the runs
\* whose log is a file of its own; a log path equal to the snapshot path
\* appends to the snapshot as well.)
C7_SnapshotUntouched ==
    (args.mode = "compare" /\ pc = "returned" /\ args.log # args.csv)
    => fs[args.csv] = Snapshot

\* The closeness the claim states, |actual - expected| <=
\* tol * max(1, |expected|, |actual|), in IEEE arithmetic: false with a NaN
\* on either side or an undefined difference or product.
ClaimedClose(e, a, tol) ==
    IF e.k = "nan" \/ a.k = "nan" THEN FALSE
    ELSE IF e.k = "inf" \/ a.k = "inf"
    THEN ~(e.k = "inf" /\ a.k = "inf" /\ e.m = a.m) /\ tol[1] > 0
    ELSE LET x == IF e.e > a.e THEN e.e ELSE a.e
             d == AbsInt(Scaled(a, x) - Scaled(e, x))
             m1 == IF AbsInt(Scaled(e, x)) > AbsInt(Scaled(a, x))
                   THEN AbsInt(Scaled(e, x)) ELSE AbsInt(Scaled(a, x))
             m == IF m1 > Pow10(x) THEN m1 ELSE Pow10(x)
         IN  d * tol[2] <= tol[1] * m

CompareCase == unit.fn = "compare_values" /\ unit.done

\* C8 as stated: (match, "") when the trimmed texts are identical;
\* (mismatch, "") when they differ and one is no number; otherwise a
\* non-empty delta that reads as actual - expected, and match iff
\* |actual - expected| <= tol * max(1, |expected|, |actual|).
C8_CompareValues ==
    CompareCase
    => LET exp == Strip(unit.expected)
           act == Strip(unit.actual)
           en == PyFloat(exp)
           an == PyFloat(act)
           r == unit.res
       IN  /\ r.raised = ""
           /\ exp = act => (r.match /\ r.delta = <<>>)
           /\ (exp # act /\ (en = None \/ an = None)) => (~r.match /\ r.delta = <<>>)
           /\ (exp # act /\ en # None /\ an # None)
              => /\ r.delta # <<>>
                 /\ PyFloat(r.delta) = FSub(an, en)
                 /\ r.match <=> ClaimedClose(en, an, unit.tol)

\* C8 amended: as stated for tol >= 0 and two finite numbers. When one of
\* the numbers is infinite or NaN the result is a match only if both are
\* the same infinity, and the delta text is inf, -inf or nan. With tol < 0
\* the call raises ValueError as soon as the texts differ and both parse.
C8_CompareValuesFinite ==
    CompareCase
    => LET exp == Strip(unit.expected)
           act == Strip(unit.actual)
           en == PyFloat(exp)
           an == PyFloat(act)
           r == unit.res
       IN  /\ exp = act => (r.raised = "" /\ r.match /\ r.delta = <<>>)
           /\ (exp # act /\ (en = None \/ an = None))
              => (r.raised = "" /\ ~r.match /\ r.delta = <<>>)
           /\ (exp # act /\ en # None /\ an # None /\ unit.tol[1] < 0)
              => r.raised = "ValueError"
           /\ (exp # act /\ en # None /\ an # None /\ unit.tol[1] >= 0)
              => /\ r.raised = ""
                 /\ r.delta # <<>>
                 /\ PyFloat(r.delta) = FSub(an, en)
                 /\ r.match <=> IF en.k = "fin" /\ an.k = "fin"
                                THEN ClaimedClose(en, an, unit.tol)
                                ELSE en.k = "inf" /\ an = en

\* 1 against 1.5 with tolerance 1/2: a match with delta 0.5.
C8_Witness ==
    /\ CompareCase
    /\ unit.expected = <<"1">> /\ unit.actual = <<"1", ".", "5">>
    /\ unit.tol = <<1, 2>>
    /\ unit.res.match /\ unit.res.delta = <<"0", ".", "5">>

\* C9: the serial session is opened at most once; every transport operation
\* happens while it is open; and it is closed once the mode function has
\* left its with block, by return or by any exception.
C9_SessionScoped ==
    /\ opens <= 1
    /\ serOpen => opens = 1
    /\ wire.closed = 0
    /\ io # <<>> => serOpen
    /\ pc \in {"post", "returned", "raised", "exited"} => ~serOpen

\* A mode function raised a transport exception after the port had opened
\* and had been written to.
C9_Witness ==
    /\ pc = "raised" /\ exc = "SerialException" /\ ~openFailed
    /\ opens = 1 /\ wire.writes > 0 /\ ~serOpen

\* What an exchange puts on the line and takes from it, and the settle wait.
OnTheLine(op) == op[1] \in {"write", "readline"} \/ op = OpSleep("settle")

QueryCase == unit.fn = "query" /\ unit.done

\* C10 as stated: a completed exchange is, in order and with nothing else on
\* the line: a bare terminator, command + terminator, the settle wait, one
\* line read; the result is the stripped line, "" on timeout.
C10_QueryExchange ==
    (QueryCase /\ unit.res.raised = "")
    => /\ \E t \in {<<"\n">>, unit.eol} :
            SelectSeq(unit.res.ops, OnTheLine)
            = <<OpWrite(t), OpWrite(unit.cmd \o unit.eol), OpSleep("settle"), OpReadline>>
       /\ unit.res.resp = Strip(AsciiIgnore(unit.out.line))

\* The exchange as the code performs it.
ExchangeOnTheLine(cmd, eol) ==
    <<OpWrite(<<"\n">>), OpWrite(cmd \o eol), OpSleep("settle"),
      OpWrite(<<"\n">>), OpReadline>>

\* C10 amended: an exchange first resets the input buffer and then is, in
\* order: a bare "\n", command + terminator, the settle wait, a second bare
\* "\n", one line read; an exception stops it where it is raised. The
\* result is the line decoded as ASCII and stripped, "" on timeout.
C10_QueryExchangeSecondNewline ==
    QueryCase
    => LET line == SelectSeq(unit.res.ops, OnTheLine)
           full == ExchangeOnTheLine(unit.cmd, unit.eol)
       IN  /\ unit.res.ops[1] = OpReset
           /\ Len(line) <= Len(full)
           /\ line = SubSeq(full, 1, Len(line))
           /\ unit.res.raised = ""
              => /\ line = full
                 /\ unit.res.resp = Strip(AsciiIgnore(unit.out.line))
           /\ unit.res.raised # "" => unit.res.resp = <<>>

\* A query with terminator "\r\n" read a padded line.
C10_Witness ==
    /\ QueryCase /\ unit.res.raised = ""
    /\ unit.eol = <<"\r", "\n">>
    /\ unit.out.line = <<" ", "1", ".", "5", " ", "\n">>
    /\ unit.res.resp = <<"1", ".", "5">>


\* The rows a restore's counters place in one of the four row outcomes.
RowsPlaced(c) == c.skipped + c.dry_run + c.writes + c.write_fail

\* C11: when restore_from_csv returns, every row of the snapshot is counted
\* in exactly one of 'skipped', 'dry_run', 'writes' and 'write_fail', so the
\* four add up to the total, whatever the transport did while the write
\* commands were sent and the verification queries ran; a row counted as a
\* write exception is not also counted as written.
C11_RowCountedOnce ==
    (pc = "returned" /\ args.mode = "restore")
    => /\ stats.total = nrows
       /\ RowsPlaced(stats.cnt) = stats.total

=============================================================================
